---------------------------- MODULE Spec2Model ----------------------------
(***************************************************************************)
(* A model of rustdes: a line-oriented command server.                     *)
(*                                                                         *)
(*   - the acceptor of start_server, the session threads running           *)
(*     handle_client and the connection registry they share behind a       *)
(*     Mutex (src/src/server/server.rs, src/src/server/util.rs);           *)
(*   - command resolution and dispatch (src/src/commands/defs.rs,          *)
(*     src/src/commands/handlers/ping.rs);                                 *)
(*   - the argument parser (src/src/commands/parser.rs).                   *)
(*                                                                         *)
(* Text is modelled as a sequence of one-character strings, so that split, *)
(* trim, to_lowercase and join are computed character by character as the  *)
(* library routines the code calls compute them.                           *)
(***************************************************************************)
EXTENDS Integers, Sequences, FiniteSets, TLC

(***************************************************************************)
(* Bounds of the model.                                                    *)
(***************************************************************************)
\* connections the acceptor accepts before the model stops accepting
MaxConns == 2
\* reads of N>0 bytes served over all sessions
MaxReads == 2
\* parameters of an argument specification handed to parse
MaxParams == 3
\* raw tokens handed to parse
MaxTokens == 2
\* argument fields of a request line handed to handle_input
MaxFields == 2

(***************************************************************************)
(* String literals of the source.                                          *)
(***************************************************************************)
STR_PING == <<"P", "I", "N", "G">>
STR_ping == <<"p", "i", "n", "g">>
STR_get == <<"g", "e", "t">>
STR_set == <<"s", "e", "t">>
STR_PONG == <<"P", "O", "N", "G">>
STR_message == <<"m", "e", "s", "s", "a", "g", "e">>
STR_PingDescription == <<"C", "u", "s", "t", "o", "m", " ", "r", "e", "s", "p", "o", "n", "s", "e", " ", "t", "o", " ", "s", "e", "n", "d", " ", "b", "a", "c", "k", " ", "t", "o", " ", "t", "h", "e", " ", "c", "l", "i", "e", "n", "t">>
STR_UnknownCommand == <<"U", "n", "k", "n", "o", "w", "n", " ", "c", "o", "m", "m", "a", "n", "d", ":", " ">>
STR_ErrorPrefix == <<"E", "r", "r", "o", "r", ":", " ">>
STR_GetTodo == <<"n", "o", "t", " ", "y", "e", "t", " ", "i", "m", "p", "l", "e", "m", "e", "n", "t", "e", "d", ":", " ", "G", "e", "t", " ", "h", "a", "n", "d", "l", "e", "r", " ", "n", "o", "t", " ", "i", "m", "p", "l", "e", "m", "e", "n", "t", "e", "d">>
STR_SetTodo == <<"n", "o", "t", " ", "y", "e", "t", " ", "i", "m", "p", "l", "e", "m", "e", "n", "t", "e", "d", ":", " ", "S", "e", "t", " ", "h", "a", "n", "d", "l", "e", "r", " ", "n", "o", "t", " ", "i", "m", "p", "l", "e", "m", "e", "n", "t", "e", "d">>
STR_RemainderNotLastA == <<"A", "r", "g", "u", "m", "e", "n", "t", " ", "'">>
STR_RemainderNotLastB == <<"'", " ", "c", "a", "p", "t", "u", "r", "e", "s", " ", "t", "h", "e", " ", "r", "e", "m", "a", "i", "n", "i", "n", "g", " ", "i", "n", "p", "u", "t", " ", "a", "n", "d", " ", "m", "u", "s", "t", " ", "b", "e", " ", "t", "h", "e", " ", "f", "i", "n", "a", "l", " ", "a", "r", "g", "u", "m", "e", "n", "t">>
STR_Unexpected == <<"U", "n", "e", "x", "p", "e", "c", "t", "e", "d", " ", "a", "r", "g", "u", "m", "e", "n", "t", "(", "s", ")", " ", "s", "t", "a", "r", "t", "i", "n", "g", " ", "a", "t", " ", "'">>
STR_Missing == <<"M", "i", "s", "s", "i", "n", "g", " ", "r", "e", "q", "u", "i", "r", "e", "d", " ", "a", "r", "g", "u", "m", "e", "n", "t", "(", "s", ")", ":", " ">>
STR_Usage == <<"U", "s", "a", "g", "e", ":", " ">>
STR_Arguments == <<"A", "r", "g", "u", "m", "e", "n", "t", "s", ":">>
STR_required == <<"r", "e", "q", "u", "i", "r", "e", "d">>
STR_optional == <<"o", "p", "t", "i", "o", "n", "a", "l">>
STR_single == <<"s", "i", "n", "g", "l", "e">>
STR_variadic == <<"v", "a", "r", "i", "a", "d", "i", "c">>
STR_DefaultOpen == <<" ", "[", "d", "e", "f", "a", "u", "l", "t", ":", " ">>
STR_Ellipsis == <<".", ".", ".">>

(***************************************************************************)
(* The str and slice routines of the standard library that the code calls. *)
(***************************************************************************)
\* char::is_whitespace on the characters of the model
Whitespace == {" ", "\t", "\n", "\r"}

UpperLetters == <<"A", "B", "C", "D", "E", "F", "G", "H", "I", "J", "K", "L", "M", "N", "O", "P", "Q", "R", "S", "T", "U", "V", "W", "X", "Y", "Z">>
LowerLetters == <<"a", "b", "c", "d", "e", "f", "g", "h", "i", "j", "k", "l", "m", "n", "o", "p", "q", "r", "s", "t", "u", "v", "w", "x", "y", "z">>

LowerChar(c) ==
    IF \E k \in 1..Len(UpperLetters) : UpperLetters[k] = c
    THEN LowerLetters[CHOOSE k \in 1..Len(UpperLetters) : UpperLetters[k] = c]
    ELSE c

\* str::to_lowercase
ToLowercase(s) == [k \in 1..Len(s) |-> LowerChar(s[k])]

RECURSIVE TrimStart(_)
TrimStart(s) ==
    IF s = <<>> THEN s
    ELSE IF Head(s) \in Whitespace THEN TrimStart(Tail(s)) ELSE s

RECURSIVE TrimEnd(_)
TrimEnd(s) ==
    IF s = <<>> THEN s
    ELSE IF s[Len(s)] \in Whitespace THEN TrimEnd(SubSeq(s, 1, Len(s) - 1)) ELSE s

\* str::trim
Trim(s) == TrimEnd(TrimStart(s))

\* str::split(" "): cuts at every single space; n spaces give n+1 pieces,
\* empty pieces included
RECURSIVE SplitSpace(_)
SplitSpace(s) ==
    IF \E k \in 1..Len(s) : s[k] = " "
    THEN LET k == CHOOSE j \in 1..Len(s) : s[j] = " " /\ \A h \in 1..(j - 1) : s[h] # " "
         IN  <<SubSeq(s, 1, k - 1)>> \o SplitSpace(SubSeq(s, k + 1, Len(s)))
    ELSE <<s>>

\* [String]::join(sep)
RECURSIVE Join(_, _)
Join(list, sep) ==
    IF list = <<>> THEN <<>>
    ELSE IF Len(list) = 1 THEN list[1]
    ELSE list[1] \o sep \o Join(Tail(list), sep)

(***************************************************************************)
(* src/src/commands/parser.rs                                              *)
(***************************************************************************)
\* Option<Vec<String>>
None == [some |-> FALSE, val |-> <<>>]
Some(v) == [some |-> TRUE, val |-> v]

\* ArgumentDefinition::required
ArgumentDefinition_required(name, description) ==
    [name |-> name, description |-> description, required |-> TRUE,
     arity |-> "Single", default |-> None]

\* ArgumentDefinition::optional
ArgumentDefinition_optional(name, description) ==
    [name |-> name, description |-> description, required |-> FALSE,
     arity |-> "Single", default |-> None]

\* ArgumentDefinition::optional_with_default
ArgumentDefinition_optional_with_default(name, description, default) ==
    [name |-> name, description |-> description, required |-> FALSE,
     arity |-> "Single", default |-> Some(<<default>>)]

\* ArgumentDefinition::required_remainder
ArgumentDefinition_required_remainder(name, description) ==
    [name |-> name, description |-> description, required |-> TRUE,
     arity |-> "Remainder", default |-> None]

\* ArgumentDefinition::optional_remainder
ArgumentDefinition_optional_remainder(name, description) ==
    [name |-> name, description |-> description, required |-> FALSE,
     arity |-> "Remainder", default |-> None]

\* ArgumentDefinition::optional_remainder_with_default
ArgumentDefinition_optional_remainder_with_default(name, description, default) ==
    [name |-> name, description |-> description, required |-> FALSE,
     arity |-> "Remainder", default |-> Some(default)]

\* ArgumentDefinition::usage_token
usage_token(spec) ==
    LET base  == IF spec.arity = "Single" THEN spec.name ELSE spec.name \o STR_Ellipsis
        token == IF spec.required THEN <<"<">> \o base \o <<">">>
                                  ELSE <<"[">> \o base \o <<"]">>
    IN  IF spec.arity = "Single" /\ spec.default.some /\ spec.default.val # <<>>
        THEN token \o <<"=">> \o spec.default.val[1]
        ELSE token

\* a faulty variant of summary: the default is never rendered
summary_no_default(spec) ==
    spec.name \o <<" ", "(">> \o (IF spec.required THEN STR_required ELSE STR_optional)
    \o <<" ">> \o (IF spec.arity = "Single" THEN STR_single ELSE STR_variadic)
    \o <<")", ":", " ">> \o spec.description

\* ArgumentDefinition::summary
summary(spec) ==
    LET requirement == IF spec.required THEN STR_required ELSE STR_optional
        arity       == IF spec.arity = "Single" THEN STR_single ELSE STR_variadic
        head        == spec.name \o <<" ", "(">> \o requirement \o <<" ">> \o arity
                       \o <<")", ":", " ">> \o spec.description
    IN  IF spec.default.some /\ spec.default.val # <<>>
        THEN LET rendered == IF spec.arity = "Single" THEN spec.default.val[1]
                             ELSE Join(spec.default.val, <<" ">>)
             IN  head \o STR_DefaultOpen \o rendered \o <<"]">>
        ELSE head

\* ArgumentParser::new
ArgumentParser_new(command_name, specs) ==
    [command_name |-> command_name, specs |-> specs]

\* ArgumentParser::usage
usage(parser) ==
    LET tokens == [k \in 1..Len(parser.specs) |-> usage_token(parser.specs[k])]
    IN  IF tokens = <<>> THEN STR_Usage \o parser.command_name
        ELSE STR_Usage \o parser.command_name \o <<" ">> \o Join(tokens, <<" ">>)

\* ArgumentParser::usage_with_details
usage_with_details(parser) ==
    IF parser.specs # <<>>
    THEN LET details == <<STR_Arguments>> \o
                 [k \in 1..Len(parser.specs) |-> <<" ", " ">> \o summary(parser.specs[k])]
         IN  Join(<<usage(parser), Join(details, <<"\n">>)>>, <<"\n">>)
    ELSE usage(parser)

\* ArgumentParser::error (with ArgumentError::new)
error(parser, message) ==
    [command_name |-> parser.command_name, message |-> message,
     usage |-> usage_with_details(parser)]

\* HashMap::insert: a later insert under the same key replaces the earlier one
MapInsert(map, key, value) ==
    [k \in (DOMAIN map) \cup {key} |-> IF k = key THEN value ELSE map[k]]

\* the trimmed, non-empty tokens of args (parse, the first statement)
RawTokens(args) ==
    SelectSeq([k \in 1..Len(args) |-> Trim(args[k])], LAMBDA a : a # <<>>)

\* the message of a Remainder parameter that is not the final one
RemainderNotFinalMessage(name) == STR_RemainderNotLastA \o name \o STR_RemainderNotLastB

\* a faulty variant of UnexpectedMessage: only the first leftover token is named
UnexpectedMessageFirstOnly(queue) == STR_Unexpected \o queue[1] \o <<"'">>

\* the message for tokens left in the queue after the loop
UnexpectedMessage(queue) == STR_Unexpected \o Join(queue, <<" ">>) \o <<"'">>

\* a faulty variant of MissingMessage: only the first missing name is reported
MissingMessageFirstOnly(missing) == STR_Missing \o missing[1]

\* the message for required parameters left unbound
MissingMessage(missing) == STR_Missing \o Join(missing, <<",", " ">>)

\* ParseStep with one flaw built in:
\*   "no_final_check"  a Remainder parameter is not required to be the final one
\*   "merge_default"   a Remainder parameter's default is appended to its tokens
\*   "skip_absent"     an absent parameter with no default gets no entry
\*   "pop_back"        a Single parameter takes the last queued token
\*   "keep_last"       a Single parameter leaves the last queued token alone
ParseStepWith(parser, index, st, flaw) ==
    LET spec == parser.specs[index]
        absent == IF flaw = "skip_absent" THEN st.values
                  ELSE MapInsert(st.values, spec.name, <<>>)
        fallback ==
            IF spec.default.some
            THEN [st EXCEPT !.values = MapInsert(st.values, spec.name, spec.default.val)]
            ELSE [st EXCEPT !.values = absent,
                            !.missing = IF spec.required THEN Append(st.missing, spec.name)
                                        ELSE st.missing]
        taken == IF flaw = "pop_back" THEN st.queue[Len(st.queue)] ELSE Head(st.queue)
        rest  == IF flaw = "pop_back" THEN SubSeq(st.queue, 1, Len(st.queue) - 1)
                 ELSE Tail(st.queue)
        extra == IF flaw = "merge_default" /\ spec.default.some THEN spec.default.val
                 ELSE <<>>
    IN  IF spec.arity = "Single"
        THEN IF st.queue # <<>> /\ (flaw = "keep_last" => Len(st.queue) > 1)
             THEN [abort |-> FALSE,
                   st |-> [st EXCEPT !.queue = rest,
                                     !.values = MapInsert(st.values, spec.name, <<taken>>)]]
             ELSE [abort |-> FALSE, st |-> fallback]
        ELSE IF flaw # "no_final_check" /\ index # Len(parser.specs)
             THEN [abort |-> TRUE,
                   err |-> error(parser, RemainderNotFinalMessage(spec.name))]
             ELSE IF st.queue = <<>>
                  THEN [abort |-> FALSE, st |-> [fallback EXCEPT !.queue = <<>>]]
                  ELSE [abort |-> FALSE,
                        st |-> [st EXCEPT !.queue = <<>>,
                                          !.values = MapInsert(st.values, spec.name,
                                                               st.queue \o extra)]]

\* faulty variants of ParseStep
ParseStep_NoFinalCheck(parser, index, st) == ParseStepWith(parser, index, st, "no_final_check")
ParseStep_MergeDefault(parser, index, st) == ParseStepWith(parser, index, st, "merge_default")
ParseStep_SkipAbsent(parser, index, st) == ParseStepWith(parser, index, st, "skip_absent")
ParseStep_PopBack(parser, index, st) == ParseStepWith(parser, index, st, "pop_back")
ParseStep_KeepLast(parser, index, st) == ParseStepWith(parser, index, st, "keep_last")

\* one iteration of the for loop of parse, on specs[index] (1-based here)
ParseStep(parser, index, st) ==
    LET spec == parser.specs[index]
        fallback ==
            IF spec.default.some
            THEN [st EXCEPT !.values = MapInsert(st.values, spec.name, spec.default.val)]
            ELSE [st EXCEPT !.values = MapInsert(st.values, spec.name, <<>>),
                            !.missing = IF spec.required THEN Append(st.missing, spec.name)
                                        ELSE st.missing]
    IN  IF spec.arity = "Single"
        THEN IF st.queue # <<>>
             THEN [abort |-> FALSE,
                   st |-> [st EXCEPT !.queue = Tail(st.queue),
                                     !.values = MapInsert(st.values, spec.name,
                                                          <<Head(st.queue)>>)]]
             ELSE [abort |-> FALSE, st |-> fallback]
        ELSE IF index # Len(parser.specs)
             THEN [abort |-> TRUE,
                   err |-> error(parser, RemainderNotFinalMessage(spec.name))]
             ELSE IF st.queue = <<>>
                  THEN [abort |-> FALSE, st |-> [fallback EXCEPT !.queue = <<>>]]
                  ELSE [abort |-> FALSE,
                        st |-> [st EXCEPT !.queue = <<>>,
                                          !.values = MapInsert(st.values, spec.name,
                                                               st.queue)]]

\* the for loop of parse from specs[index] on
RECURSIVE ParseLoop(_, _, _)
ParseLoop(parser, index, st) ==
    IF index > Len(parser.specs) THEN [abort |-> FALSE, st |-> st]
    ELSE LET r == ParseStep(parser, index, st)
         IN  IF r.abort THEN r ELSE ParseLoop(parser, index + 1, r.st)

\* ArgumentParser::parse
parse(parser, args) ==
    LET raw  == RawTokens(args)
        loop == ParseLoop(parser, 1,
                          [queue |-> raw, values |-> <<>>, missing |-> <<>>])
    IN  IF loop.abort THEN [tag |-> "Err", error |-> loop.err]
        ELSE IF loop.st.queue # <<>>
        THEN [tag |-> "Err", error |-> error(parser, UnexpectedMessage(loop.st.queue))]
        ELSE IF loop.st.missing # <<>>
        THEN [tag |-> "Err", error |-> error(parser, MissingMessage(loop.st.missing))]
        ELSE [tag |-> "Ok",
              parsed |-> [command_name |-> parser.command_name,
                          raw |-> raw,
                          order |-> [k \in 1..Len(parser.specs) |-> parser.specs[k].name],
                          values |-> loop.st.values]]

\* ParsedArguments::list
ParsedArguments_list(parsed, name) ==
    IF name \in DOMAIN parsed.values THEN parsed.values[name] ELSE <<>>

\* ArgumentError::pretty, which is its Display
ArgumentError_pretty(err) == err.message \o <<"\n">> \o err.usage

\* From<ArgumentError> for io::Error: the io::Error displays err.to_string()
io_Error_from(err) == ArgumentError_pretty(err)

(***************************************************************************)
(* src/src/commands/handlers/ping.rs and src/src/commands/defs.rs          *)
(***************************************************************************)
\* PingHandler::name
PingHandler_name == STR_PING

\* PingHandler::parser
PingHandler_parser ==
    ArgumentParser_new(PingHandler_name,
        <<ArgumentDefinition_optional_remainder_with_default(
              STR_message, STR_PingDescription, <<STR_PONG>>)>>)

\* PingHandler::execute
PingHandler_execute(parsed) ==
    [tag |-> "Ok", val |-> Join(ParsedArguments_list(parsed, STR_message), <<" ">>)]

\* CommandHandler::handle, for the one handler there is
CommandHandler_handle(handler, args) ==
    LET parsed == parse(PingHandler_parser, args)
    IN  IF parsed.tag = "Err" THEN parsed ELSE PingHandler_execute(parsed.parsed)

\* a faulty variant of match_command: the name is matched in the case it was typed in
match_command_case_sensitive(input) ==
    LET name == Trim(input)
    IN  IF name = STR_ping THEN [tag |-> "Ok", cmd |-> "Ping"]
        ELSE IF name = STR_get THEN [tag |-> "Ok", cmd |-> "Get"]
        ELSE IF name = STR_set THEN [tag |-> "Ok", cmd |-> "Set"]
        ELSE [tag |-> "Err", msg |-> STR_UnknownCommand \o Trim(input)]

\* match_command
match_command(input) ==
    LET name == ToLowercase(Trim(input))
    IN  IF name = STR_ping THEN [tag |-> "Ok", cmd |-> "Ping"]
        ELSE IF name = STR_get THEN [tag |-> "Ok", cmd |-> "Get"]
        ELSE IF name = STR_set THEN [tag |-> "Ok", cmd |-> "Set"]
        ELSE [tag |-> "Err", msg |-> STR_UnknownCommand \o Trim(input)]

\* get_handler_for: todo!() panics with "not yet implemented: <message>"
get_handler_for(cmd) ==
    IF cmd = "Ping" THEN [tag |-> "Ok", handler |-> "PING_HANDLER"]
    ELSE IF cmd = "Get" THEN [tag |-> "Panic", msg |-> STR_GetTodo]
    ELSE [tag |-> "Panic", msg |-> STR_SetTodo]

\* execute
execute(cmd, args) ==
    LET handler == get_handler_for(cmd)
    IN  IF handler.tag = "Panic" THEN handler
        ELSE LET r == CommandHandler_handle(handler.handler, args)
             IN  IF r.tag = "Err" THEN [tag |-> "Err", msg |-> io_Error_from(r.error)]
                 ELSE r

(***************************************************************************)
(* src/src/server/server.rs: handle_input                                  *)
(***************************************************************************)
\* handle_input: Ok(val), Err(msg), or a panic unwinding out of it
handle_input(input) ==
    LET parts    == SplitSpace(input)
        cmd_type == match_command(parts[1])
    IN  IF cmd_type.tag = "Err" THEN cmd_type
        ELSE execute(cmd_type.cmd, Tail(parts))

\* a faulty variant of format_output: the "Error: " prefix is dropped
format_output_no_prefix(r) == IF r.tag = "Ok" THEN r.val ELSE r.msg

\* handle_client, the match on handle_input's result: the text of the response
format_output(r) == IF r.tag = "Ok" THEN r.val ELSE STR_ErrorPrefix \o r.msg

(***************************************************************************)
(* src/src/server/util.rs                                                  *)
(***************************************************************************)
\* send: the bytes handed to write_all
fixed_message(message) == message \o <<"\n">>

(***************************************************************************)
(* The server: state.                                                      *)
(***************************************************************************)
VARIABLES
    alive,        \* the process runs: its main thread has not panicked
    acceptor,     \* the main thread in start_server: [pc, id, addr]
    next_id,      \* start_server's next_id
    connections,  \* the HashMap<u64, ConnectionInfo> behind the Mutex
    holder,       \* who holds the Mutex: Free, ByAcceptor or BySession(t)
    poisoned,     \* the Mutex is poisoned: a thread panicked while holding it
    clock,        \* the number of SystemTime::now() calls made so far
    session,      \* the spawned threads, in spawn order: [pc, id, received, output, result]
    sent,         \* per session thread, the texts its reads of N>0 bytes returned
    wire,         \* per session thread, the messages written to its socket
    call,         \* a call of a pure function, for the specification SpecFn
    ret           \* what that call returned

vars == <<alive, acceptor, next_id, connections, holder, poisoned, clock,
          session, sent, wire, call, ret>>
serverVars == <<alive, acceptor, next_id, connections, holder, poisoned, clock,
                session, sent, wire>>

\* the values of holder
Free == <<"free">>
ByAcceptor == <<"acceptor">>
BySession(t) == <<"session", t>>

\* the session threads the model has room for
Threads == 1..MaxConns

\* the request texts a client of the server model sends in one read
LINE_Ping == <<"P", "I", "N", "G", "\n">>
LINE_Get == <<"G", "E", "T", " ", "x", "\n">>
LINE_Set == <<"s", "e", "t", " ", "k", " ", "v", "\n">>
LINE_Foo == <<"F", "O", "O", "\n">>
Lines == {LINE_Ping, LINE_Get, LINE_Set, LINE_Foo}

\* the peer addresses of the model
PeerAddrs == {"127.0.0.1:50000"}

RECURSIVE TotalReadsUpTo(_, _)
TotalReadsUpTo(s, t) == IF t = 0 THEN 0 ELSE Len(s[t]) + TotalReadsUpTo(s, t - 1)
\* reads of N>0 bytes served so far, over all sessions
TotalReads == TotalReadsUpTo(sent, MaxConns)

\* a thread that start_server has not spawned yet
Unspawned == [pc |-> "unspawned", id |-> 0, received |-> <<>>, output |-> <<>>,
              result |-> "none"]

\* the threads spawned so far
Spawned == {t \in Threads : session[t].pc # "unspawned"}

ServerInit ==
    /\ alive = TRUE
    /\ acceptor = [pc |-> "accept", id |-> 0, addr |-> ""]
    /\ next_id = 0
    /\ connections = <<>>
    /\ holder = Free
    /\ poisoned = FALSE
    /\ clock = 0
    /\ session = [t \in Threads |-> Unspawned]
    /\ sent = [t \in Threads |-> <<>>]
    /\ wire = [t \in Threads |-> <<>>]

Init ==
    /\ ServerInit
    /\ call = [fn |-> "none"]
    /\ ret = [tag |-> "Pending"]

(***************************************************************************)
(* Panics.  A panic of the main thread ends the process, and every thread  *)
(* with it.  A panic of a spawned thread unwinds that thread only: its     *)
(* locals are dropped (a held MutexGuard poisons and unlocks the Mutex,    *)
(* the TcpStream is closed) and nothing after the panicking call runs.     *)
(***************************************************************************)
MainPanic ==
    /\ alive' = FALSE
    /\ acceptor' = [acceptor EXCEPT !.pc = "panicked"]

ThreadPanic(t) ==
    /\ session' = [session EXCEPT ![t].pc = "panicked"]
    /\ poisoned' = (poisoned \/ holder = BySession(t))
    /\ holder' = IF holder = BySession(t) THEN Free ELSE holder

(***************************************************************************)
(* start_server: the accept loop.                                          *)
(***************************************************************************)
\* a faulty variant of next_id_advance: next_id is not advanced
next_id_stuck(n) == n

\* next_id += 1
next_id_advance(n) == n + 1

\* the ConnectionInfo inserted at accept time; now() is called twice
new_ConnectionInfo(addr, now) ==
    [status |-> "Active", address |-> addr, connected_at |-> now,
     last_activity |-> now + 1]

\* listener.incoming() yields an error: expect("Stream error!") panics
AcceptStreamError ==
    /\ alive /\ acceptor.pc = "accept"
    /\ Cardinality(Spawned) < MaxConns
    /\ MainPanic
    /\ UNCHANGED <<next_id, connections, holder, poisoned, clock, session, sent,
                   wire, call, ret>>

\* a stream is accepted and takes the next id, but peer_addr() fails:
\* expect("Error with the peer address") panics
AcceptPeerAddrError ==
    /\ alive /\ acceptor.pc = "accept"
    /\ Cardinality(Spawned) < MaxConns
    /\ next_id' = next_id_advance(next_id)
    /\ alive' = FALSE
    /\ acceptor' = [acceptor EXCEPT !.pc = "panicked", !.id = next_id]
    /\ UNCHANGED <<connections, holder, poisoned, clock, session, sent, wire,
                   call, ret>>

\* a stream is accepted, takes the next id, and its peer address is read
Accept ==
    /\ alive /\ acceptor.pc = "accept"
    /\ Cardinality(Spawned) < MaxConns
    /\ \E addr \in PeerAddrs :
         acceptor' = [pc |-> "lock", id |-> next_id, addr |-> addr]
    /\ next_id' = next_id_advance(next_id)
    /\ UNCHANGED <<alive, connections, holder, poisoned, clock, session, sent,
                   wire, call, ret>>

\* connections_clone.lock().unwrap() of the insert block
AcceptorLock ==
    /\ alive /\ acceptor.pc = "lock" /\ holder = Free
    /\ IF poisoned
       THEN MainPanic /\ UNCHANGED holder
       ELSE /\ holder' = ByAcceptor
            /\ acceptor' = [acceptor EXCEPT !.pc = "insert"]
            /\ UNCHANGED alive
    /\ UNCHANGED <<next_id, connections, poisoned, clock, session, sent, wire,
                   call, ret>>

\* conns.insert(id, ConnectionInfo {..}), and the guard goes out of scope
AcceptorInsert ==
    /\ alive /\ acceptor.pc = "insert" /\ holder = ByAcceptor
    /\ connections' = MapInsert(connections, acceptor.id,
                                new_ConnectionInfo(acceptor.addr, clock))
    /\ clock' = clock + 2
    /\ holder' = Free
    /\ acceptor' = [acceptor EXCEPT !.pc = "spawn"]
    /\ UNCHANGED <<alive, next_id, poisoned, session, sent, wire, call, ret>>

\* thread::spawn(move || ..): the new thread owns id and stream
Spawn ==
    /\ alive /\ acceptor.pc = "spawn"
    /\ LET t == Cardinality(Spawned) + 1
       IN  session' = [session EXCEPT ![t] = [Unspawned EXCEPT !.pc = "read",
                                                              !.id = acceptor.id]]
    /\ acceptor' = [acceptor EXCEPT !.pc = "accept"]
    /\ UNCHANGED <<alive, next_id, connections, holder, poisoned, clock, sent,
                   wire, call, ret>>

(***************************************************************************)
(* handle_client and the closure around it: one session thread.            *)
(***************************************************************************)
\* stream.read returns Ok(n), n > 0
ReadData(t) ==
    /\ alive /\ session[t].pc = "read"
    /\ TotalReads < MaxReads
    /\ \E line \in Lines :
         /\ session' = [session EXCEPT ![t].pc = "dispatch", ![t].received = line]
         /\ sent' = [sent EXCEPT ![t] = Append(@, line)]
    /\ UNCHANGED <<alive, acceptor, next_id, connections, holder, poisoned, clock,
                   wire, call, ret>>

\* stream.read returns Ok(0)
ReadEof(t) ==
    /\ alive /\ session[t].pc = "read"
    /\ session' = [session EXCEPT ![t].pc = "lock_mark"]
    /\ UNCHANGED <<alive, acceptor, next_id, connections, holder, poisoned, clock,
                   sent, wire, call, ret>>

\* stream.read returns Err(e): return Err(e)
ReadError(t) ==
    /\ alive /\ session[t].pc = "read"
    /\ session' = [session EXCEPT ![t].pc = "lock_cleanup", ![t].result = "ReadErr"]
    /\ UNCHANGED <<alive, acceptor, next_id, connections, holder, poisoned, clock,
                   sent, wire, call, ret>>

\* a faulty variant of Dispatch: the request is dispatched inside the registry's
\* critical section
DispatchUnderLock(t) ==
    /\ alive /\ session[t].pc = "dispatch" /\ holder = Free
    /\ LET r == handle_input(session[t].received)
       IN  IF r.tag = "Panic"
           THEN /\ session' = [session EXCEPT ![t].pc = "panicked"]
                /\ poisoned' = TRUE
           ELSE /\ session' = [session EXCEPT ![t].pc = "send",
                                              ![t].output = format_output(r)]
                /\ UNCHANGED poisoned
    /\ UNCHANGED <<alive, acceptor, next_id, connections, holder, clock, sent, wire,
                   call, ret>>

\* handle_input(received) and the match on its result
Dispatch(t) ==
    /\ alive /\ session[t].pc = "dispatch"
    /\ LET r == handle_input(session[t].received)
       IN  IF r.tag = "Panic"
           THEN ThreadPanic(t)
           ELSE /\ session' = [session EXCEPT ![t].pc = "send",
                                              ![t].output = format_output(r)]
                /\ UNCHANGED <<holder, poisoned>>
    /\ UNCHANGED <<alive, acceptor, next_id, connections, clock, sent, wire, call, ret>>

\* util::send returns Ok(()): write_all wrote the message and flush returned
SendOk(t) ==
    /\ alive /\ session[t].pc = "send"
    /\ wire' = [wire EXCEPT ![t] = Append(@, fixed_message(session[t].output))]
    /\ session' = [session EXCEPT ![t].pc = "lock_update"]
    /\ UNCHANGED <<alive, acceptor, next_id, connections, holder, poisoned, clock,
                   sent, call, ret>>

\* util::send returns Err(e): the ? returns it from handle_client
SendError(t) ==
    /\ alive /\ session[t].pc = "send"
    /\ session' = [session EXCEPT ![t].pc = "lock_cleanup", ![t].result = "WriteErr"]
    /\ UNCHANGED <<alive, acceptor, next_id, connections, holder, poisoned, clock,
                   sent, wire, call, ret>>

\* connections.lock().unwrap(), at any of the three places a session locks
SessionLock(t) ==
    /\ alive /\ session[t].pc \in {"lock_update", "lock_mark", "lock_cleanup"}
    /\ holder = Free
    /\ IF poisoned
       THEN ThreadPanic(t)
       ELSE /\ holder' = BySession(t)
            /\ session' = [session EXCEPT ![t].pc =
                              CASE @ = "lock_update" -> "update"
                                [] @ = "lock_mark" -> "mark"
                                [] OTHER -> "cleanup"]
            /\ UNCHANGED poisoned
    /\ UNCHANGED <<alive, acceptor, next_id, connections, clock, sent, wire, call, ret>>

\* a faulty variant of set_last_activity: every record is stamped
set_last_activity_all(conns, id, now) ==
    [k \in DOMAIN conns |-> [conns[k] EXCEPT !.last_activity = now]]

\* info.last_activity = SystemTime::now(), when the record is there
set_last_activity(conns, id, now) ==
    IF id \in DOMAIN conns THEN [conns EXCEPT ![id].last_activity = now] ELSE conns

\* a faulty variant of set_disconnected: the status is left as it is
set_disconnected_nothing(conns, id) == conns

\* info.status = ConnectionStatus::Disconnected, when the record is there
set_disconnected(conns, id) ==
    IF id \in DOMAIN conns THEN [conns EXCEPT ![id].status = "Disconnected"] ELSE conns

\* a faulty variant of registry_remove: the record is left in the registry
registry_remove_nothing(conns, id) == conns

\* conns.remove(&id)
registry_remove(conns, id) == [k \in (DOMAIN conns) \ {id} |-> conns[k]]

\* a faulty variant of UpdateActivity: the guard is kept over the next read
UpdateActivity_KeepsLock(t) ==
    /\ alive /\ session[t].pc = "update" /\ holder = BySession(t)
    /\ connections' = set_last_activity(connections, session[t].id, clock)
    /\ clock' = IF session[t].id \in DOMAIN connections THEN clock + 1 ELSE clock
    /\ session' = [session EXCEPT ![t].pc = "read", ![t].received = <<>>,
                                  ![t].output = <<>>]
    /\ UNCHANGED <<alive, acceptor, next_id, holder, poisoned, sent, wire, call, ret>>

\* the "Update last activity" block, and back to the top of the loop
UpdateActivity(t) ==
    /\ alive /\ session[t].pc = "update" /\ holder = BySession(t)
    /\ connections' = set_last_activity(connections, session[t].id, clock)
    /\ clock' = IF session[t].id \in DOMAIN connections THEN clock + 1 ELSE clock
    /\ holder' = Free
    /\ session' = [session EXCEPT ![t].pc = "read", ![t].received = <<>>,
                                  ![t].output = <<>>]
    /\ UNCHANGED <<alive, acceptor, next_id, poisoned, sent, wire, call, ret>>

\* the Ok(0) arm: mark the record Disconnected, break, return Ok(())
MarkDisconnected(t) ==
    /\ alive /\ session[t].pc = "mark" /\ holder = BySession(t)
    /\ connections' = set_disconnected(connections, session[t].id)
    /\ holder' = Free
    /\ session' = [session EXCEPT ![t].pc = "lock_cleanup", ![t].result = "Ok"]
    /\ UNCHANGED <<alive, acceptor, next_id, poisoned, clock, sent, wire, call, ret>>

\* the "Clean up when done" block of the closure; the thread then ends
Cleanup(t) ==
    /\ alive /\ session[t].pc = "cleanup" /\ holder = BySession(t)
    /\ connections' = registry_remove(connections, session[t].id)
    /\ holder' = Free
    /\ session' = [session EXCEPT ![t].pc = "done"]
    /\ UNCHANGED <<alive, acceptor, next_id, poisoned, clock, sent, wire, call, ret>>

Next ==
    \/ AcceptStreamError
    \/ AcceptPeerAddrError
    \/ Accept
    \/ AcceptorLock
    \/ AcceptorInsert
    \/ Spawn
    \/ \E t \in Threads :
         \/ ReadData(t)
         \/ ReadEof(t)
         \/ ReadError(t)
         \/ Dispatch(t)
         \/ SendOk(t)
         \/ SendError(t)
         \/ SessionLock(t)
         \/ UpdateActivity(t)
         \/ MarkDisconnected(t)
         \/ Cleanup(t)

Spec == Init /\ [][Next]_vars

(***************************************************************************)
(* The pure functions on their own: a call of parse or of handle_input on  *)
(* inputs drawn from bounded sets, and what it returns.                    *)
(***************************************************************************)
\* the names of the parameters of a specification, by position
ParamNames == <<<<"k", "e", "y">>, <<"v", "a", "l">>, <<"t", "t", "l">>,
                <<"o", "p", "t">>, <<"a", "u", "x">>>>
ParamDescription == <<"d", "s", "c">>
DefaultOne == <<"d", "1">>
DefaultTwo == <<"d", "2">>
CommandName == <<"C", "M", "D">>

\* the ArgumentDefinitions a parameter called name may be: the six constructors,
\* and two struct literals (the fields are pub)
ParamKinds(name) ==
    { ArgumentDefinition_required(name, ParamDescription),
      ArgumentDefinition_optional(name, ParamDescription),
      ArgumentDefinition_optional_with_default(name, ParamDescription, DefaultOne),
      ArgumentDefinition_required_remainder(name, ParamDescription),
      ArgumentDefinition_optional_remainder(name, ParamDescription),
      ArgumentDefinition_optional_remainder_with_default(name, ParamDescription,
                                                         <<DefaultOne, DefaultTwo>>),
      [name |-> name, description |-> ParamDescription, required |-> TRUE,
       arity |-> "Single", default |-> Some(<<DefaultOne>>)],
      [name |-> name, description |-> ParamDescription, required |-> FALSE,
       arity |-> "Remainder", default |-> Some(<<>>)] }

\* the specifications of n parameters
RECURSIVE SpecsOfLen(_)
SpecsOfLen(n) ==
    IF n = 0 THEN {<<>>}
    ELSE {Append(s, d) : s \in SpecsOfLen(n - 1), d \in ParamKinds(ParamNames[n])}

\* the raw tokens handed to parse: plain, empty, and padded with whitespace
RawTokenSet == {<<"x">>, <<>>, <<" ", "w", "\n">>}

ParseCalls ==
    {[fn |-> "parse", specs |-> s, args |-> a] :
        s \in UNION {SpecsOfLen(n) : n \in 0..MaxParams},
        a \in UNION {[1..n -> RawTokenSet] : n \in 0..MaxTokens}}

\* the first word of a request line
CommandWords == {<<"P", "I", "N", "G">>, <<"p", "i", "n", "g">>, <<"P", "i", "n", "g">>,
                 <<"p", "I", "n", "G">>, <<"G", "E", "T">>, <<"s", "e", "t">>,
                 <<"F", "O", "O">>, <<"p", "i", "n", "g", "s">>, <<>>}
\* what separates the fields of a request line
Separators == {<<" ">>, <<" ", " ">>, <<"\t">>}
\* the argument fields of a request line
FieldWords == {<<"h", "e", "l", "l", "o">>, <<"w", "o", "r", "l", "d">>, <<"x">>}
\* what ends a request line
Terminators == {<<>>, <<"\n">>, <<"\r", "\n">>}

InputCalls ==
    {[fn |-> "handle_input", cmd |-> c, sep |-> s, fields |-> f, term |-> e] :
        c \in CommandWords, s \in Separators,
        f \in UNION {[1..n -> FieldWords] : n \in 0..MaxFields},
        e \in Terminators}

\* the text of a request: the command word, each field after a separator, the end
RECURSIVE FieldsText(_, _)
FieldsText(fields, sep) ==
    IF fields = <<>> THEN <<>> ELSE sep \o Head(fields) \o FieldsText(Tail(fields), sep)
RequestLine(c) == c.cmd \o FieldsText(c.fields, c.sep) \o c.term

InitFn ==
    /\ ServerInit
    /\ \/ call \in ParseCalls
       \/ call \in InputCalls
    /\ ret = [tag |-> "Pending"]

CallParse ==
    /\ call.fn = "parse" /\ ret.tag = "Pending"
    /\ ret' = parse(ArgumentParser_new(CommandName, call.specs), call.args)
    /\ UNCHANGED <<serverVars, call>>

CallHandleInput ==
    /\ call.fn = "handle_input" /\ ret.tag = "Pending"
    /\ ret' = handle_input(RequestLine(call))
    /\ UNCHANGED <<serverVars, call>>

NextFn == CallParse \/ CallHandleInput

SpecFn == InitFn /\ [][NextFn]_vars

(***************************************************************************)
(* Properties.  What a client expects is written down here on its own,     *)
(* character by character, not taken from the definitions above.           *)
(***************************************************************************)
\* the session threads that have ended: returned from the closure, or unwound
Ended == {"done", "panicked"}
\* the positions of a session thread that is past handle_client
Leaving == {"lock_cleanup", "cleanup", "done"}
\* the request lines of the server model that name GET or SET
GetSetLines == {LINE_Get, LINE_Set}

HasPrefix(s, p) == Len(s) >= Len(p) /\ SubSeq(s, 1, Len(p)) = p

\* the response a client expects to each request line of the server model that
\* names an implemented or an unknown command
ExpectedReply(line) ==
    CASE line = LINE_Ping -> <<"P", "O", "N", "G", "\n">>
      [] line = LINE_Foo -> <<"E", "r", "r", "o", "r", ":", " ", "U", "n", "k", "n", "o",
                              "w", "n", " ", "c", "o", "m", "m", "a", "n", "d", ":", " ",
                              "F", "O", "O", "\n">>

\* C1: every id present in the registry belongs to a session thread that has not
\* ended, and the id of a session thread that has ended, by whatever exit path,
\* is absent from the registry.
C1_RegistryInvariant ==
    /\ \A id \in DOMAIN connections :
          \/ \E t \in Spawned : session[t].id = id /\ session[t].pc \notin Ended
          \/ acceptor.pc = "spawn" /\ acceptor.id = id
    /\ \A t \in Spawned :
          session[t].pc \in Ended => session[t].id \notin DOMAIN connections

\* C2: a GET or SET line is answered with an error response, the session thread
\* survives it, and a PING sent next on the same connection is answered.
C2_GetSetAnswered ==
    \A t \in Spawned : \A k \in 1..Len(sent[t]) :
        sent[t][k] \in GetSetLines =>
            /\ session[t].pc # "panicked"
            /\ (k = Len(sent[t]) /\ session[t].pc \in Leaving
                    => Len(wire[t]) = k \/ session[t].result = "WriteErr")
            /\ (k <= Len(wire[t]) => HasPrefix(wire[t][k], <<"E", "r", "r", "o", "r", ":">>))
            /\ (k + 1 <= Len(wire[t]) /\ sent[t][k + 1] = LINE_Ping
                    => wire[t][k + 1] = <<"P", "O", "N", "G", "\n">>)

\* a session thread other than t is served: its lock() calls succeed and the
\* request it is dispatching gets its response
FaultStep(t) == session[t].pc = "dispatch" /\ session'[t].pc = "panicked"
OthersServed(t) ==
    \A u \in Threads \ {t} :
        /\ (session[u].pc = "dispatch" /\ session'[u].pc # "dispatch"
              /\ session[u].received \notin GetSetLines
                => /\ session'[u].pc = "send"
                   /\ fixed_message(session'[u].output) = ExpectedReply(session[u].received))
        /\ (session[u].pc \in {"lock_update", "lock_mark", "lock_cleanup"}
              /\ session'[u].pc # session[u].pc
                => holder' = BySession(u))
        /\ (session[u].pc = "send" /\ session'[u].pc = "lock_update"
                => Len(wire'[u]) = Len(sent[u]))

\* C3: a fault raised while a session dispatches GET or SET happens with the
\* registry lock not held by that session, leaves the lock usable (never
\* poisoned), changes nothing of the acceptor, the registry or any other session,
\* and after it the acceptor still takes the lock and inserts, and every other
\* session still takes the lock and has its commands answered.
C3_FaultIsolated ==
    /\ [](~poisoned)
    /\ [][\A t \in Threads :
            FaultStep(t) =>
                /\ holder # BySession(t)
                /\ UNCHANGED <<alive, acceptor, next_id, connections, holder, poisoned,
                               clock, sent, wire>>
                /\ \A u \in Threads \ {t} : session'[u] = session[u]]_vars
    /\ [][\A t \in Threads :
            session[t].pc = "panicked" =>
                /\ alive' = alive \/ acceptor.pc = "accept"
                /\ (acceptor.pc = "lock" /\ acceptor'.pc # "lock"
                        => acceptor'.pc = "insert" /\ holder' = ByAcceptor)
                /\ OthersServed(t)]_vars

\* C3, its case: one session thread has faulted; another one has been answered
\* and is back at its read, the acceptor runs, the lock is free and usable.
C3_Witness ==
    \E t, u \in Spawned :
        /\ t # u
        /\ session[t].pc = "panicked"
        /\ session[u].pc = "read" /\ Len(wire[u]) = 1 /\ Len(sent[u]) = 1
        /\ session[u].id \in DOMAIN connections
        /\ connections[session[u].id].last_activity > connections[session[u].id].connected_at + 1
        /\ alive /\ holder = Free /\ ~poisoned

\* C4: a failure while establishing one connection (the accepted stream is an
\* error, the peer address cannot be read) leaves the accept loop running.
C4_AcceptFailureIsolated == alive /\ acceptor.pc # "panicked"

\* C5: a line whose first token names no command is answered with the
\* unknown-command error, the session does not end because of it, its registry
\* record stays present and Active, and a valid command sent next on the same
\* connection gets its normal answer.
C5_UnknownCommand ==
    \A t \in Spawned : \A k \in 1..Len(sent[t]) :
        sent[t][k] = LINE_Foo =>
            /\ (k <= Len(wire[t]) => wire[t][k] = ExpectedReply(LINE_Foo))
            /\ (k = Len(sent[t]) =>
                  /\ session[t].pc # "panicked"
                  /\ session[t].pc \in {"dispatch", "send", "lock_update", "update", "read"}
                        => /\ session[t].id \in DOMAIN connections
                           /\ connections[session[t].id].status = "Active"
                  /\ session[t].pc = "send"
                        => fixed_message(session[t].output) = ExpectedReply(LINE_Foo)
                  /\ session[t].pc \in {"lock_update", "update", "read", "lock_mark", "mark"}
                        => Len(wire[t]) = k
                  /\ session[t].pc \in Leaving
                        => \/ session[t].result = "WriteErr" /\ Len(wire[t]) = k - 1
                           \/ session[t].result \in {"Ok", "ReadErr"} /\ Len(wire[t]) = k)
            /\ (k + 1 <= Len(wire[t]) /\ sent[t][k + 1] = LINE_Ping
                    => wire[t][k + 1] = ExpectedReply(sent[t][k + 1]))

\* C5, its case: FOO was answered, then PING was answered on the same connection.
C5_Witness ==
    \E t \in Spawned :
        /\ sent[t] = <<LINE_Foo, LINE_Ping>>
        /\ Len(wire[t]) = 2
        /\ session[t].pc = "read"
        /\ connections[session[t].id].status = "Active"

\* a session's read or write fails
IoFailStep(t) ==
    session[t].result = "none" /\ session'[t].result \in {"ReadErr", "WriteErr"}

\* C6: a read or write failure on a session's socket ends that session only: its
\* loop exits with the error, it then only takes the lock and removes its own
\* id, which is absent once the thread is done, and the step changes nothing of
\* the registry, the lock, the acceptor or any other session.
C6_IoFailureIsolated ==
    /\ [](\A t \in Spawned :
            session[t].pc = "done" /\ session[t].result \in {"ReadErr", "WriteErr"}
                => session[t].id \notin DOMAIN connections)
    /\ [][\A t \in Threads :
            IoFailStep(t) =>
                /\ session'[t].pc = "lock_cleanup"
                /\ UNCHANGED <<alive, acceptor, next_id, connections, holder, poisoned,
                               clock, sent, wire>>
                /\ \A u \in Threads \ {t} : session'[u] = session[u]]_vars
    /\ [][\A t \in Threads :
            session[t].result \in {"ReadErr", "WriteErr"} /\ session'[t] # session[t] =>
                /\ session'[t].pc \in {"cleanup", "done"}
                /\ UNCHANGED <<alive, acceptor, next_id, sent, wire>>
                /\ \A u \in Threads \ {t} : session'[u] = session[u]
                /\ \A id \in DOMAIN connections :
                      id # session[t].id
                        => id \in DOMAIN connections' /\ connections'[id] = connections[id]]_vars

\* C6, its case: a session has ended on a write failure and is out of the
\* registry, while another session is being served and is still in it.
C6_Witness ==
    \E t, u \in Spawned :
        /\ t # u
        /\ session[t].pc = "done" /\ session[t].result = "WriteErr"
        /\ session[t].id \notin DOMAIN connections
        /\ session[u].pc = "send"
        /\ session[u].id \in DOMAIN connections
        /\ alive

\* the spellings of PING among the command words
PingSpellings == {<<"P", "I", "N", "G">>, <<"p", "i", "n", "g">>, <<"P", "i", "n", "g">>,
                  <<"p", "I", "n", "G">>}

\* the tokens, one space between each two
RECURSIVE SpaceJoined(_)
SpaceJoined(tokens) ==
    IF Len(tokens) = 1 THEN tokens[1]
    ELSE tokens[1] \o <<" ">> \o SpaceJoined(Tail(tokens))

\* C7: PING with no arguments returns PONG, PING followed by tokens returns the
\* tokens joined by single spaces, and the command name resolves the same in any
\* letter case.
C7_Ping ==
    (/\ call.fn = "handle_input" /\ ret.tag # "Pending"
     /\ call.cmd \in PingSpellings
     /\ call.sep \in {<<" ">>, <<" ", " ">>})
        => ret = [tag |-> "Ok",
                  val |-> IF call.fields = <<>> THEN <<"P", "O", "N", "G">>
                          ELSE SpaceJoined(call.fields)]

\* C7, its case: "ping hello world" returned "hello world".
C7_Witness ==
    /\ call.fn = "handle_input" /\ ret.tag = "Ok"
    /\ RequestLine(call) = <<"p", "i", "n", "g", " ", "h", "e", "l", "l", "o", " ",
                             "w", "o", "r", "l", "d", "\n">>
    /\ ret.val = <<"h", "e", "l", "l", "o", " ", "w", "o", "r", "l", "d">>

\* C8: every read of N>0 bytes gets exactly one response, in arrival order and
\* one at a time; the response is written before last-activity is updated, and
\* that before the next read.
C8_OneResponsePerRead ==
    \A t \in Spawned :
        /\ Len(sent[t]) - 1 <= Len(wire[t]) /\ Len(wire[t]) <= Len(sent[t])
        /\ \A k \in 1..Len(wire[t]) :
              IF sent[t][k] \in GetSetLines
              THEN HasPrefix(wire[t][k], <<"E", "r", "r", "o", "r", ":", " ">>)
                   /\ wire[t][k][Len(wire[t][k])] = "\n"
              ELSE wire[t][k] = ExpectedReply(sent[t][k])
        /\ session[t].pc \in {"dispatch", "send"} => Len(wire[t]) = Len(sent[t]) - 1
        /\ session[t].pc \in {"lock_update", "update", "read", "lock_mark", "mark"}
              => Len(wire[t]) = Len(sent[t])
        /\ session[t].pc \in Leaving \cup {"panicked"}
              => Len(wire[t]) = Len(sent[t]) \/ session[t].result = "WriteErr"

\* the ids handed out so far, in the order the acceptor handed them out
AssignedIds ==
    [t \in 1..Cardinality(Spawned) |-> session[t].id]
        \o (IF acceptor.pc \in {"lock", "insert", "spawn"} THEN <<acceptor.id>> ELSE <<>>)

\* C9: ids are handed out in strictly increasing order and never reused, whatever
\* the interleaving of connects and disconnects, and an insert never overwrites
\* a record that is still in the registry.
C9_IdsUnique ==
    /\ \A i, j \in 1..Len(AssignedIds) : i < j => AssignedIds[i] < AssignedIds[j]
    /\ \A i \in 1..Len(AssignedIds) : AssignedIds[i] < next_id
    /\ acceptor.pc \in {"lock", "insert"} => acceptor.id \notin DOMAIN connections

\* C9, its case: the first connection is gone from the registry, the second one
\* is about to be inserted under a new id.
C9_Witness ==
    /\ session[1].pc = "done"
    /\ connections = <<>>
    /\ acceptor.pc = "insert" /\ acceptor.id = 1

\* parse has returned
ParseReturned == call.fn = "parse" /\ ret.tag # "Pending"

\* the trimmed, non-empty tokens of a call of parse
GivenTokens == SelectSeq([k \in 1..Len(call.args) |-> Trim(call.args[k])],
                         LAMBDA a : a # <<>>)

\* the position of the first Remainder parameter, 0 when there is none
FirstRemainder ==
    IF \E k \in 1..Len(call.specs) : call.specs[k].arity = "Remainder"
    THEN CHOOSE k \in 1..Len(call.specs) :
            /\ call.specs[k].arity = "Remainder"
            /\ \A j \in 1..(k - 1) : call.specs[j].arity = "Single"
    ELSE 0

\* a Remainder parameter, if there is one, is the last parameter
RemainderOnlyLast == FirstRemainder \in {0, Len(call.specs)}

\* parameter k gets a token: tokens go to the parameters in order, one each, and
\* a Remainder parameter takes all that reach it
GetsToken(k) ==
    /\ k <= Len(GivenTokens)
    /\ FirstRemainder = 0 \/ k <= FirstRemainder

\* tokens are left over: there is no Remainder parameter and more tokens than
\* parameters
TokensLeftOver == FirstRemainder = 0 /\ Len(GivenTokens) > Len(call.specs)

\* the names of the required parameters left unbound (no token, no default), in
\* declaration order
UnboundRequired ==
    LET idx == SelectSeq([k \in 1..Len(call.specs) |-> k],
                         LAMBDA k : /\ call.specs[k].required
                                    /\ ~GetsToken(k)
                                    /\ ~call.specs[k].default.some)
    IN  [i \in 1..Len(idx) |-> call.specs[idx[i]].name]

RECURSIVE CommaJoined(_)
CommaJoined(names) ==
    IF Len(names) = 1 THEN names[1]
    ELSE names[1] \o <<",", " ">> \o CommaJoined(Tail(names))

\* the missing-required-argument error naming all of UnboundRequired
FailsNamingAllUnbound ==
    /\ ret.tag = "Err"
    /\ ret.error.message =
         <<"M", "i", "s", "s", "i", "n", "g", " ", "r", "e", "q", "u", "i", "r", "e", "d", " ",
           "a", "r", "g", "u", "m", "e", "n", "t", "(", "s", ")", ":", " ">>
         \o CommaJoined(UnboundRequired)

\* C10, as stated: for every specification and token sequence, if a required
\* parameter is left unbound and no tokens are left over, parse fails with the
\* missing-required-argument error naming all unbound required parameters,
\* comma-joined, in declaration order.
C10_MissingNamesAll_AnySpec ==
    ParseReturned /\ UnboundRequired # <<>> /\ ~TokensLeftOver => FailsNamingAllUnbound

\* C10, amended: the same, for every specification whose Remainder parameter, if
\* it has one, is its last parameter.
C10_MissingNamesAll ==
    ParseReturned /\ RemainderOnlyLast /\ UnboundRequired # <<>> /\ ~TokensLeftOver
        => FailsNamingAllUnbound

\* C10, its case: a token for the first of three parameters, the two required
\* ones after it unbound, and the error names both.
C10_Witness ==
    /\ ParseReturned /\ RemainderOnlyLast /\ ~TokensLeftOver
    /\ Len(GivenTokens) = 1
    /\ UnboundRequired = <<ParamNames[2], ParamNames[3]>>
    /\ ret.tag = "Err"
    /\ ret.error.message =
         <<"M", "i", "s", "s", "i", "n", "g", " ", "r", "e", "q", "u", "i", "r", "e", "d", " ",
           "a", "r", "g", "u", "m", "e", "n", "t", "(", "s", ")", ":", " ",
           "v", "a", "l", ",", " ", "t", "t", "l">>


\* the tokens left once every parameter has taken its own
LeftoverTokens == SubSeq(GivenTokens, Len(call.specs) + 1, Len(GivenTokens))

\* C11: if non-empty tokens remain after all parameters have been processed,
\* parse fails with the unexpected-argument error naming the first leftover
\* token and every later one, joined by single spaces, and returns no Parsed
\* Arguments.
C11_UnexpectedNamesLeftovers ==
    ParseReturned /\ TokensLeftOver =>
        /\ ret.tag = "Err"
        /\ ret.error.message =
             <<"U", "n", "e", "x", "p", "e", "c", "t", "e", "d", " ", "a", "r", "g", "u", "m",
               "e", "n", "t", "(", "s", ")", " ", "s", "t", "a", "r", "t", "i", "n", "g", " ",
               "a", "t", " ", "'">> \o SpaceJoined(LeftoverTokens) \o <<"'">>

\* C11, its case: no parameter, two raw tokens, one of them to be trimmed, and the
\* error names the two tokens left over.
C11_Witness ==
    /\ ParseReturned /\ TokensLeftOver
    /\ Len(call.specs) = 0 /\ Len(call.args) = 2
    /\ LeftoverTokens = <<<<"x">>, <<"w">>>>
    /\ ret.tag = "Err"
    /\ ret.error.message =
         <<"U", "n", "e", "x", "p", "e", "c", "t", "e", "d", " ", "a", "r", "g", "u", "m",
           "e", "n", "t", "(", "s", ")", " ", "s", "t", "a", "r", "t", "i", "n", "g", " ",
           "a", "t", " ", "'", "x", " ", "w", "'">>

\* C12: a specification with a Remainder parameter that is not the last one is
\* rejected for every token sequence: parse returns an Argument Error naming
\* that parameter, never Parsed Arguments, however many tokens the parameters
\* before it consumed.
C12_RemainderNotLastRejected ==
    ParseReturned /\ ~RemainderOnlyLast =>
        /\ ret.tag = "Err"
        /\ ret.error.message =
             <<"A", "r", "g", "u", "m", "e", "n", "t", " ", "'">>
             \o call.specs[FirstRemainder].name
             \o <<"'", " ", "c", "a", "p", "t", "u", "r", "e", "s", " ", "t", "h", "e", " ",
                  "r", "e", "m", "a", "i", "n", "i", "n", "g", " ", "i", "n", "p", "u", "t",
                  " ", "a", "n", "d", " ", "m", "u", "s", "t", " ", "b", "e", " ", "t", "h",
                  "e", " ", "f", "i", "n", "a", "l", " ", "a", "r", "g", "u", "m", "e", "n",
                  "t">>

\* C12, its case: the second of three parameters is a Remainder, the first one
\* has consumed a token, and the error names the second.
C12_Witness ==
    /\ ParseReturned /\ Len(call.specs) = 3 /\ FirstRemainder = 2
    /\ Len(GivenTokens) = 2
    /\ ret.tag = "Err"
    /\ HasPrefix(ret.error.message,
                 <<"A", "r", "g", "u", "m", "e", "n", "t", " ", "'", "v", "a", "l", "'", " ",
                   "c", "a", "p", "t", "u", "r", "e", "s">>)

\* the specification is a single optional Remainder parameter with a default
OnlyOptionalRemainderWithDefault ==
    /\ Len(call.specs) = 1
    /\ call.specs[1].arity = "Remainder"
    /\ ~call.specs[1].required
    /\ call.specs[1].default.some

\* C13: for a command whose only parameter is a trailing optional Remainder
\* parameter with default D, zero non-empty tokens bind exactly D and tokens
\* t1..tn, n > 0, bind exactly t1..tn in order, not merged with D.
C13_RemainderDefault ==
    ParseReturned /\ OnlyOptionalRemainderWithDefault =>
        /\ ret.tag = "Ok"
        /\ DOMAIN ret.parsed.values = {call.specs[1].name}
        /\ ret.parsed.values[call.specs[1].name] =
             IF GivenTokens = <<>> THEN call.specs[1].default.val ELSE GivenTokens

\* C13, its case: two tokens given, a default of two values, and the tokens alone
\* are bound.
C13_Witness ==
    /\ ParseReturned /\ OnlyOptionalRemainderWithDefault
    /\ call.specs[1].default.val = <<DefaultOne, DefaultTwo>>
    /\ ret.tag = "Ok"
    /\ ret.parsed.values[ParamNames[1]] = <<<<"x">>, <<"w">>>>

\* the state parse's loop ends in, for the call at hand
LoopEnd ==
    ParseLoop(ArgumentParser_new(CommandName, call.specs), 1,
              [queue |-> RawTokens(call.args), values |-> <<>>, missing |-> <<>>])

\* C16: only one of the two failure modes applies to a parse call: when the loop
\* has run through, its queue is non-empty exactly when tokens are left over,
\* its missing list is exactly the unbound required parameters, and the two are
\* never non-empty together; so the leftover check, made first, never hides a
\* missing-argument error.
C16_OneFailureMode ==
    call.fn = "parse" /\ ~LoopEnd.abort =>
        /\ (LoopEnd.st.queue # <<>>) = TokensLeftOver
        /\ LoopEnd.st.missing = UnboundRequired
        /\ ~(LoopEnd.st.queue # <<>> /\ LoopEnd.st.missing # <<>>)
        /\ (ParseReturned /\ ret.tag = "Err" /\ LoopEnd.st.queue # <<>>
                => HasPrefix(ret.error.message, STR_Unexpected) /\ UnboundRequired = <<>>)

\* C16, its case: a specification with a required parameter without default, and
\* tokens left over: parse reports them, and nothing is missing.
C16_Witness ==
    /\ ParseReturned /\ ~LoopEnd.abort
    /\ \E k \in 1..Len(call.specs) :
          call.specs[k].required /\ ~call.specs[k].default.some
    /\ LoopEnd.st.queue # <<>> /\ LoopEnd.st.missing = <<>>
    /\ ret.tag = "Err" /\ HasPrefix(ret.error.message, STR_Unexpected)

\* the names of the specification at hand, in declaration order
DeclaredNames == [k \in 1..Len(call.specs) |-> call.specs[k].name]

\* C17: every successful parse returns Parsed Arguments whose value mapping has
\* an entry, possibly the empty sequence, for every declared parameter name and
\* no other key, and whose declaration-order list is the specification's names
\* in order.
C17_ParsedShape ==
    ParseReturned /\ ret.tag = "Ok" =>
        /\ DOMAIN ret.parsed.values = {DeclaredNames[k] : k \in 1..Len(DeclaredNames)}
        /\ ret.parsed.order = DeclaredNames

\* C17, its case: three parameters, one token, and the last parameter is bound
\* to the empty sequence.
C17_Witness ==
    /\ ParseReturned /\ ret.tag = "Ok"
    /\ Len(call.specs) = 3 /\ Len(GivenTokens) = 1
    /\ ret.parsed.values[ParamNames[3]] = <<>>
    /\ ret.parsed.values[ParamNames[2]] = <<DefaultOne>>

\* what parameter k is to be bound to: its token, all tokens from the k-th on for
\* a Remainder parameter, and its default or nothing once the tokens have run out
ExpectedBinding(k) ==
    IF k <= Len(GivenTokens)
    THEN IF call.specs[k].arity = "Single" THEN <<GivenTokens[k]>>
         ELSE SubSeq(GivenTokens, k, Len(GivenTokens))
    ELSE IF call.specs[k].default.some THEN call.specs[k].default.val ELSE <<>>

\* the values of parameters k.. that were bound to tokens, one after the other
RECURSIVE BoundTokensFrom(_)
BoundTokensFrom(k) ==
    IF k > Len(call.specs) \/ k > Len(GivenTokens) THEN <<>>
    ELSE ret.parsed.values[call.specs[k].name] \o BoundTokensFrom(k + 1)

\* C19: on every successful parse the k-th Single parameter is bound to the k-th
\* non-empty trimmed token when there are k tokens, a trailing Remainder
\* parameter gets all tokens after those, every token is bound to exactly one
\* parameter, in input order, and once a parameter falls back to its default or
\* to empty no later parameter is bound to a token.
C19_PositionalBinding ==
    ParseReturned /\ ret.tag = "Ok" =>
        /\ \A k \in 1..Len(call.specs) :
              ret.parsed.values[call.specs[k].name] = ExpectedBinding(k)
        /\ BoundTokensFrom(1) = GivenTokens
        /\ ret.parsed.raw = GivenTokens

\* C19, its case: two tokens for three parameters: the first two take one each,
\* the third falls back to its default.
C19_Witness ==
    /\ ParseReturned /\ ret.tag = "Ok"
    /\ Len(call.specs) = 3
    /\ call.args = <<<<" ", "w", "\n">>, <<"x">>>>
    /\ ret.parsed.values[ParamNames[1]] = <<<<"w">>>>
    /\ ret.parsed.values[ParamNames[2]] = <<<<"x">>>>
    /\ ret.parsed.values[ParamNames[3]] = <<DefaultOne>>

\* the whitespace-delimited fields of the request text at hand, in order
RequestFields == (IF call.cmd = <<>> THEN <<>> ELSE <<call.cmd>>) \o call.fields

\* what a request whose fields are the given ones is to return: PING's reply, the
\* fault of the unfinished GET and SET, or the unknown-command error
ExpectedOutcome(fields) ==
    IF Head(fields) \in PingSpellings
    THEN [tag |-> "Ok",
          val |-> IF Tail(fields) = <<>> THEN <<"P", "O", "N", "G">>
                  ELSE SpaceJoined(Tail(fields))]
    ELSE IF Head(fields) \in {<<"G", "E", "T">>, <<"s", "e", "t">>}
    THEN [tag |-> "Panic"]
    ELSE [tag |-> "Err",
          msg |-> <<"U", "n", "k", "n", "o", "w", "n", " ", "c", "o", "m", "m", "a", "n",
                    "d", ":", " ">> \o Head(fields)]

\* C15: for every request text the command resolved is the one named by the
\* first whitespace-delimited token and the arguments are the remaining
\* whitespace-delimited tokens in order, whether one or several whitespace
\* characters separate the fields and whether or not separators lead the text.
C15_WhitespaceFields ==
    (call.fn = "handle_input" /\ ret.tag # "Pending" /\ RequestFields # <<>>) =>
        IF ExpectedOutcome(RequestFields).tag = "Panic"
        THEN ret.tag = "Panic"
        ELSE ret = ExpectedOutcome(RequestFields)

\* C15 for the request texts that start with the command word and separate their
\* fields by spaces only
C15_SpaceFields ==
    (/\ call.fn = "handle_input" /\ ret.tag # "Pending"
     /\ call.cmd # <<>> /\ call.sep \in {<<" ">>, <<" ", " ">>}) =>
        IF ExpectedOutcome(RequestFields).tag = "Panic"
        THEN ret.tag = "Panic"
        ELSE ret = ExpectedOutcome(RequestFields)

\* the record of a session that read zero bytes: Disconnected from the time the
\* session has marked it until the session removes it, and gone afterwards; and
\* a Disconnected record belongs to such a session
C14_MarkedThenRemoved ==
    /\ \A id \in DOMAIN connections :
          connections[id].status = "Disconnected" =>
              \E t \in Spawned : /\ session[t].id = id
                                 /\ session[t].pc \in {"lock_cleanup", "cleanup"}
                                 /\ session[t].result = "Ok"
    /\ \A t \in Spawned :
          session[t].result = "Ok" =>
              \/ /\ session[t].pc \in {"lock_cleanup", "cleanup"}
                 /\ session[t].id \in DOMAIN connections
                 /\ connections[session[t].id].status = "Disconnected"
              \/ /\ session[t].pc = "done"
                 /\ session[t].id \notin DOMAIN connections

\* the steps of session t after a zero-byte read, and what any step leaves alone
\* once the record of t is Disconnected
C14_Step(t) ==
    LET id == session[t].id
    IN  /\ (session[t].pc = "lock_mark" /\ session'[t] # session[t])
              => session'[t].pc = "mark"
        /\ (session[t].pc = "mark" /\ session'[t] # session[t])
              => /\ id \in DOMAIN connections'
                 /\ connections'[id].status = "Disconnected"
                 /\ session'[t].pc = "lock_cleanup" /\ session'[t].result = "Ok"
        /\ (session[t].result = "Ok" /\ session'[t] # session[t])
              => \/ session[t].pc = "lock_cleanup" /\ session'[t].pc = "cleanup"
                 \/ /\ session[t].pc = "cleanup" /\ session'[t].pc = "done"
                    /\ id \notin DOMAIN connections'
        /\ (id \in DOMAIN connections /\ connections[id].status = "Disconnected")
              => /\ id \in DOMAIN connections' => connections'[id] = connections[id]
                 /\ sent'[t] = sent[t] /\ wire'[t] = wire[t]
                 /\ session'[t].result = "Ok"

\* C14: on a zero-byte read the session sets its record's status to
\* Disconnected, leaves the loop with success, and the record is then removed;
\* a Disconnected record is never Active again, and nothing is read, dispatched
\* or written for its connection, nor is its last-activity updated, any more.
C14_DisconnectedTerminal ==
    /\ []C14_MarkedThenRemoved
    /\ [][\A t \in Spawned : C14_Step(t)]_vars

\* C14, its case: a session that has answered a request and then read zero bytes
\* is about to remove its Disconnected record.
C14_Witness ==
    \E t \in Spawned :
        /\ session[t].pc = "cleanup" /\ session[t].result = "Ok"
        /\ Len(wire[t]) = 1
        /\ session[t].id \in DOMAIN connections
        /\ connections[session[t].id].status = "Disconnected"

\* C18: the registry lock is held only for one registry insert, status update,
\* last-activity update or remove: never by a session that is reading,
\* dispatching or writing, or that has ended; whoever holds it can finish its
\* registry operation and release it without waiting for anything, and the lock
\* is never poisoned, so no session blocks another or the acceptor.
C18_LockScope ==
    /\ holder \in {Free, ByAcceptor} \cup {BySession(t) : t \in Threads}
    /\ holder = ByAcceptor => acceptor.pc = "insert"
    /\ acceptor.pc = "insert" => holder = ByAcceptor
    /\ \A t \in Threads :
          /\ holder = BySession(t) => session[t].pc \in {"update", "mark", "cleanup"}
          /\ session[t].pc \in {"update", "mark", "cleanup"} => holder = BySession(t)
    /\ ~poisoned
    /\ alive /\ holder = ByAcceptor => ENABLED AcceptorInsert
    /\ \A t \in Threads :
          alive /\ holder = BySession(t) =>
              ENABLED (UpdateActivity(t) \/ MarkDisconnected(t) \/ Cleanup(t))
    /\ alive /\ holder = Free =>
          /\ acceptor.pc = "lock" => ENABLED AcceptorLock
          /\ \A t \in Threads :
                session[t].pc \in {"lock_update", "lock_mark", "lock_cleanup"}
                    => ENABLED SessionLock(t)

\* C18, its case: one session, answered once, waits for client data while the
\* other holds the lock to remove its record.
C18_Witness ==
    \E t, u \in Spawned :
        /\ t # u
        /\ session[t].pc = "read" /\ Len(wire[t]) = 1
        /\ session[u].pc = "cleanup" /\ holder = BySession(u)

\* the last-activity updates session t has completed
Updates(t) ==
    IF session[t].pc \in {"lock_update", "update"} THEN Len(wire[t]) - 1
    ELSE Len(wire[t])

\* every record shows the updates of its own session and of no other: its
\* last-activity is the one of the insert until its session has updated it, and
\* later than that afterwards; its status is Disconnected only when its own
\* session has marked it
C20_RecordsReflectOwner ==
    \A t \in Spawned :
        session[t].id \in DOMAIN connections =>
            LET info == connections[session[t].id]
            IN  /\ Updates(t) = 0 => info.last_activity = info.connected_at + 1
                /\ Updates(t) > 0 => info.last_activity > info.connected_at + 1
                /\ (info.status = "Disconnected") = (session[t].result = "Ok")

\* a step of session t changes the registry only at t's own id, and there as the
\* operation it performs says
C20_Step(t) ==
    LET id == session[t].id
    IN  session'[t] # session[t] =>
          /\ DOMAIN connections' \subseteq DOMAIN connections
          /\ \A other \in DOMAIN connections \ {id} :
                other \in DOMAIN connections' /\ connections'[other] = connections[other]
          /\ CASE session[t].pc = "update" /\ id \in DOMAIN connections ->
                    connections'[id] = [connections[id] EXCEPT !.last_activity = clock]
               [] session[t].pc = "mark" /\ id \in DOMAIN connections ->
                    connections'[id] = [connections[id] EXCEPT !.status = "Disconnected"]
               [] session[t].pc = "cleanup" -> id \notin DOMAIN connections'
               [] OTHER -> connections' = connections

\* C20: a session only mutates or removes the record of its own id: its status
\* update, last-activity update and remove leave every other record unchanged,
\* and no update is lost when two sessions update their records, each record
\* showing its own session's updates.
C20_OwnRecordOnly ==
    /\ []C20_RecordsReflectOwner
    /\ [][\A t \in Spawned : C20_Step(t)]_vars

\* C20, its case: two sessions have each updated the last-activity of their own
\* record, and both updates are in the registry.
C20_Witness ==
    \E t, u \in Spawned :
        /\ t # u
        /\ Updates(t) = 1 /\ Updates(u) = 1
        /\ {session[t].id, session[u].id} \subseteq DOMAIN connections
        /\ connections[session[t].id].last_activity > connections[session[t].id].connected_at + 1
        /\ connections[session[u].id].last_activity > connections[session[t].id].last_activity

\* the lines of a text, split at its line feeds
RECURSIVE SplitLines(_)
SplitLines(text) ==
    IF \E i \in 1..Len(text) : text[i] = "\n"
    THEN LET i == CHOOSE i \in 1..Len(text) :
                     text[i] = "\n" /\ \A j \in 1..(i - 1) : text[j] # "\n"
         IN  <<SubSeq(text, 1, i - 1)>> \o SplitLines(SubSeq(text, i + 1, Len(text)))
    ELSE <<text>>

\* the lines of the usage text of the Argument Error returned
UsageLines == SplitLines(ret.error.usage)

\* the token of a parameter in the usage line
ExpectedToken(sp) ==
    LET inner   == IF sp.arity = "Remainder" THEN sp.name \o <<".", ".", ".">> ELSE sp.name
        wrapped == IF sp.required THEN <<"<">> \o inner \o <<">">>
                   ELSE <<"[">> \o inner \o <<"]">>
    IN  IF sp.arity = "Single" /\ sp.default.some
        THEN wrapped \o <<"=">> \o sp.default.val[1]
        ELSE wrapped

\* 'Usage: <COMMAND> <token1> <token2> ...' for the first k parameters
RECURSIVE ExpectedUsageLine(_)
ExpectedUsageLine(k) ==
    IF k = 0 THEN <<"U", "s", "a", "g", "e", ":", " ", "C", "M", "D">>
    ELSE ExpectedUsageLine(k - 1) \o <<" ">> \o ExpectedToken(call.specs[k])

\* the line of a parameter, without and with its default clause
ExpectedParamLine(sp) ==
    <<" ", " ">> \o sp.name \o <<" ", "(">>
    \o (IF sp.required THEN <<"r", "e", "q", "u", "i", "r", "e", "d">>
        ELSE <<"o", "p", "t", "i", "o", "n", "a", "l">>)
    \o <<" ">>
    \o (IF sp.arity = "Single" THEN <<"s", "i", "n", "g", "l", "e">>
        ELSE <<"v", "a", "r", "i", "a", "d", "i", "c">>)
    \o <<")", ":", " ">> \o sp.description
ExpectedDefaultClause(sp) ==
    <<" ", "[", "d", "e", "f", "a", "u", "l", "t", ":", " ">>
    \o (IF sp.arity = "Single" THEN sp.default.val[1] ELSE SpaceJoined(sp.default.val))
    \o <<"]">>

\* the line carries a default clause
HasDefaultClause(line) ==
    \E i \in 1..Len(line) :
        HasPrefix(SubSeq(line, i, Len(line)),
                  <<" ", "[", "d", "e", "f", "a", "u", "l", "t", ":", " ">>)

\* C21 as stated: the usage text of every Argument Error is the usage line
\* followed by exactly one line per declared parameter, in declaration order,
\* each with a default clause exactly when the parameter declares a default:
\* k + 1 lines for k parameters.
C21_UsageText_AsStated ==
    ParseReturned /\ ret.tag = "Err" =>
        /\ Len(UsageLines) = Len(call.specs) + 1
        /\ UsageLines[1] = ExpectedUsageLine(Len(call.specs))
        /\ \A k \in 1..Len(call.specs) :
              /\ HasPrefix(UsageLines[k + 1], ExpectedParamLine(call.specs[k]))
              /\ HasDefaultClause(UsageLines[k + 1]) = call.specs[k].default.some

\* the lines of parameters k.. of the specification at hand, each after a line
\* feed, a default clause on those whose default is not empty
RECURSIVE ExpectedParamLinesFrom(_)
ExpectedParamLinesFrom(k) ==
    IF k > Len(call.specs) THEN <<>>
    ELSE LET sp == call.specs[k]
         IN  <<"\n">> \o ExpectedParamLine(sp)
             \o (IF sp.default.some /\ sp.default.val # <<>>
                 THEN ExpectedDefaultClause(sp) ELSE <<>>)
             \o ExpectedParamLinesFrom(k + 1)

\* the number of lines of a text
LineCount(text) == Cardinality({i \in 1..Len(text) : text[i] = "\n"}) + 1

\* C21: the usage text of every Argument Error is the usage line alone for a
\* specification without parameters; for k > 0 parameters it is the usage line,
\* the line 'Arguments:' and one line per declared parameter, in declaration
\* order, k + 2 lines in all, and a parameter's line ends with a default clause
\* exactly when the parameter declares a default that is not empty.
C21_UsageText ==
    ParseReturned /\ ret.tag = "Err" =>
        IF call.specs = <<>>
        THEN /\ ret.error.usage = ExpectedUsageLine(0)
             /\ LineCount(ret.error.usage) = 1
        ELSE /\ ret.error.usage =
                   ExpectedUsageLine(Len(call.specs))
                   \o <<"\n", "A", "r", "g", "u", "m", "e", "n", "t", "s", ":">>
                   \o ExpectedParamLinesFrom(1)
             /\ LineCount(ret.error.usage) = Len(call.specs) + 2

\* C21, its case: the error of a call with three parameters, the first missing
\* and the second with a default, has five lines of usage text.
C21_Witness ==
    /\ ParseReturned /\ ret.tag = "Err"
    /\ Len(call.specs) = 3
    /\ call.specs[1].required /\ ~call.specs[1].default.some
    /\ Len(UsageLines) = 5
    /\ UsageLines[1] = <<"U", "s", "a", "g", "e", ":", " ", "C", "M", "D", " ",
                         "<", "k", "e", "y", ">", " ",
                         "[", "v", "a", "l", "]", "=", "d", "1", " ",
                         "[", "t", "t", "l", ".", ".", ".", "]">>
    /\ UsageLines[4] = <<" ", " ", "v", "a", "l", " ", "(", "o", "p", "t", "i", "o", "n",
                         "a", "l", " ", "s", "i", "n", "g", "l", "e", ")", ":", " ",
                         "d", "s", "c", " ", "[", "d", "e", "f", "a", "u", "l", "t", ":",
                         " ", "d", "1", "]">>
    /\ ~HasDefaultClause(UsageLines[5])

=============================================================================
